---- MODULE Spec2Model ----
(***************************************************************************)
(* Model of usb-flash-monitor.py: the polling loop of main(), the mount    *)
(* lifecycle of mount_and_validate / validate_mounted_usb, and the pure    *)
(* helpers port_matches and get_device_name.                               *)
(*                                                                         *)
(* Strings whose characters matter (port ids, block device names) are      *)
(* sequences of one-character strings.  Python's None is the value None.   *)
(* Standard output is assumed to accept every line that is printed.        *)
(***************************************************************************)
EXTENDS Integers, Sequences, FiniteSets, TLC

VARIABLES
    \* ---- main() ----
    pc,                 \* position of the single thread of control
    last_detected,      \* main: last_detected
    validation_result,  \* main: validation_result ("None", "1", "3")
    device_name,        \* main: device_name of the current tick
    out,                \* lines printed on standard output, in order
    tick,               \* number of completed time.sleep(1) calls
    hist,               \* one record per started tick (history)
    run,                \* what is known about the current run of present ticks (history)
    \* ---- mount_and_validate() / validate_mounted_usb() ----
    mount_point,        \* mount_and_validate: mount_point ("None" or "mp")
    is_valid,           \* mount_and_validate: is_valid ("None", "True", "False")
    ret,                \* value returned by mount_and_validate
    public_key,         \* validate_mounted_usb: public_key
    key_file,           \* state of /etc/usb-validator/public_key.pem seen by load_public_key
    signature,          \* validate_mounted_usb: signature
    serial,             \* validate_mounted_usb: serial
    dirExists,          \* the directory made by mkdtemp exists
    mounted,            \* the device is mounted on that directory
    mountRes,           \* how the mount command ended in this invocation
    umountLog,          \* how each umount of this invocation ended, in order
    steps,              \* steps of validate_mounted_usb performed (history)
    PUBLIC_KEY_PEM,     \* the embedded PEM constant
    \* ---- port_matches() ----
    USB_PORT,           \* the configured target port
    pm_candidate,       \* argument of the last port_matches call
    pm_result,          \* its result
    \* ---- get_device_name() ----
    sysfs,              \* the /sys/block snapshot of the last call
    gd_result,          \* its result
    \* ---- clean_serial(), get_usb_serial_linux(), block_dev_usb_port() ----
    cs,                 \* clean_serial: argument, result, result cleaned again
    gs,                 \* get_usb_serial_linux: what it reads and what it returns
    bp                  \* block_dev_usb_port: resolved path and result

mainRest == <<last_detected, validation_result, device_name, out, tick, hist>>
mainVars == <<pc, mainRest>>
mvaVars  == <<mount_point, is_valid, ret, public_key, key_file, signature, serial,
              dirExists, mounted, mountRes, umountLog, steps>>
portVars == <<USB_PORT, pm_candidate, pm_result>>
scanVars == <<sysfs, gd_result>>
fnVars == <<cs, gs, bp>>
vars == <<mainVars, mvaVars, PUBLIC_KEY_PEM, portVars, scanVars, fnVars, run>>

----------------------------------------------------------------------------
\* Bounds of the model
MaxTicks == 3
MaxPortLen == 5
MaxTargetLen == 3
MaxDevs == 2
MaxParts == 2
MaxSerialLen == 6
MaxAttrLen == 2
MaxPathLen == 4

None == "None"
NoneStr == <<"None">>      \* None where a character sequence is expected

\* characters of port ids
PortChars == {"1", "0", "-", ".", ":"}
Digits == {"0", "1", "2", "3", "4", "5", "6", "7", "8", "9"}

StrUpTo(chars, n) == UNION {[1..k -> chars] : k \in 0..n}

\* str.startswith
startswith(s, prefix) ==
    /\ Len(prefix) <= Len(s)
    /\ \A i \in 1..Len(prefix) : s[i] = prefix[i]

----------------------------------------------------------------------------
\* variant: prefix comparison without the "." or ":" delimiter
port_matches_nodelimiter(device_port) ==
    IF device_port = NoneStr \/ device_port = <<>> THEN FALSE
    ELSE startswith(device_port, USB_PORT)

\* port_matches(device_port), lines 58-68
port_matches(device_port) ==
    IF device_port = NoneStr \/ device_port = <<>> THEN FALSE
    ELSE IF device_port = USB_PORT THEN TRUE
    ELSE IF \/ startswith(device_port, USB_PORT \o <<".">>)
            \/ startswith(device_port, USB_PORT \o <<":">>) THEN TRUE
    ELSE FALSE

\* port ids handed to port_matches, and configured targets (USB_FLASH_PORT)
PortCandidates == StrUpTo(PortChars, MaxPortLen) \cup {NoneStr}
\* the configured port is a bus number and port numbers joined by "-"
TargetChars == {"1", "-"}
PortTargets == StrUpTo(TargetChars, MaxTargetLen) \ {<<>>}

\* one call port_matches(pm_candidate)
PortMatchesCall ==
    /\ pc = "pm_call"
    /\ pm_result' = port_matches(pm_candidate)
    /\ pc' = "pm_done"
    /\ UNCHANGED <<mainRest, mvaVars, PUBLIC_KEY_PEM, USB_PORT, pm_candidate, scanVars, fnVars, run>>

----------------------------------------------------------------------------
\* get_device_name(), lines 88-113, with block_dev_is_removable (27-34)
\* and block_dev_usb_port (37-55)

\* names under /sys/block
sda == <<"s", "d", "a">>
sdb == <<"s", "d", "b">>
sr0 == <<"s", "r", "0">>
BlockNames == {sda, sdb, sr0}

\* names inside /sys/block/<name>
sda1 == <<"s", "d", "a", "1">>
sda2 == <<"s", "d", "a", "2">>
sdb1 == <<"s", "d", "b", "1">>
queue == <<"q", "u", "e", "u", "e">>
SubNames == {sda, sda1, sda2, sdb1, queue}

\* segments of the resolved /sys/block/<name>/device link
seg_devices == <<"d", "e", "v", "i", "c", "e", "s">>
seg_usb2 == <<"u", "s", "b", "2">>
seg_2_1 == <<"2", "-", "1">>
seg_2_10 == <<"2", "-", "1", "0">>
seg_2_1_if == <<"2", "-", "1", ":", "1", ".", "0">>
seg_2_10_if == <<"2", "-", "1", "0", ":", "1", ".", "0">>
seg_ahci == <<"a", "h", "c", "i">>
seg_host0 == <<"h", "o", "s", "t", "0">>

\* os.path.realpath(device_link).split(os.sep) for a drive on port 2-1,
\* a drive on port 2-10 and a disk that is not on USB
Links == {<<seg_devices, seg_usb2, seg_2_1, seg_2_1_if, seg_host0>>,
          <<seg_devices, seg_usb2, seg_2_10, seg_2_10_if, seg_host0>>,
          <<seg_devices, seg_ahci, seg_host0>>}

\* content of /sys/block/<name>/removable, or the open failing
RemovableFiles == {"1", "0", "unreadable"}

\* one entry of /sys/block with what the scanner reads about it
SysEntries == [name : BlockNames, removable : RemovableFiles, link : Links]

\* os.listdir("/sys/block") in enumeration order: no name twice
EntryLists ==
    {l \in UNION {[1..k -> SysEntries] : k \in 0..MaxDevs} :
        \A i, j \in 1..Len(l) : i # j => l[i].name # l[j].name}

\* os.listdir(partition_path) of the device the scanner picked, or the call failing
SubDirs ==
    [readable : {TRUE},
     names : {l \in UNION {[1..k -> SubNames] : k \in 0..MaxParts} :
                 \A i, j \in 1..Len(l) : i # j => l[i] # l[j]}]
    \cup {[readable |-> FALSE, names |-> <<>>]}

Snapshots == [readable : {TRUE}, entries : EntryLists, subdir : SubDirs]
             \cup {[readable |-> FALSE, entries |-> <<>>,
                    subdir |-> [readable |-> FALSE, names |-> <<>>]]}

NoSysfs == [readable |-> TRUE, entries |-> <<>>,
            subdir |-> [readable |-> TRUE, names |-> <<>>]]

\* block_dev_is_removable, lines 27-34
block_dev_is_removable(e) == e.removable = "1"

\* variant: the leading digit is not asked for
PortShaped_dashonly(port) == \E k \in 1..Len(port) : port[k] = "-"

\* line 53: "-" in port and port[0].isdigit()
PortShaped(port) ==
    /\ \E k \in 1..Len(port) : port[k] = "-"
    /\ port[1] \in Digits

\* lines 49-55: the loop over the path segments, from index i on
RECURSIVE UsbPortFrom(_, _)
UsbPortFrom(parts, i) ==
    IF i > Len(parts) THEN NoneStr
    ELSE IF /\ startswith(parts[i], <<"u", "s", "b">>)
            /\ i + 1 <= Len(parts)
            /\ PortShaped(parts[i + 1])
         THEN parts[i + 1]
         ELSE UsbPortFrom(parts, i + 1)

\* block_dev_usb_port, lines 37-55
block_dev_usb_port(e) == UsbPortFrom(e.link, 1)

\* variant: a sub-entry equal to the device name counts as a partition
IsPartition_nonstrict(partition, name) == startswith(partition, name)

\* line 107: partition.startswith(name) and partition != name
IsPartition(partition, name) == startswith(partition, name) /\ partition # name

\* lines 106-112: the first partition in listing order, else the name itself
RECURSIVE FirstPartition(_, _, _)
FirstPartition(name, partitions, k) ==
    IF k > Len(partitions) THEN name
    ELSE IF IsPartition(partitions[k], name) THEN partitions[k]
    ELSE FirstPartition(name, partitions, k + 1)

\* lines 103-112
PartitionOrName(name, subdir) ==
    IF ~subdir.readable THEN name
    ELSE FirstPartition(name, subdir.names, 1)

\* variant: the removable flag is not looked at
IsCandidate_anydisk(e) ==
    /\ startswith(e.name, <<"s", "d">>)
    /\ port_matches(block_dev_usb_port(e))

\* lines 96-101: the tests an entry has to pass
IsCandidate(e) ==
    /\ startswith(e.name, <<"s", "d">>)
    /\ block_dev_is_removable(e)
    /\ port_matches(block_dev_usb_port(e))

\* lines 95-113: the loop over names, from index i on
RECURSIVE ScanFrom(_, _)
ScanFrom(sys, i) ==
    IF i > Len(sys.entries) THEN NoneStr
    ELSE IF IsCandidate(sys.entries[i])
         THEN PartitionOrName(sys.entries[i].name, sys.subdir)
         ELSE ScanFrom(sys, i + 1)

\* get_device_name, lines 88-113
get_device_name(sys) ==
    IF ~sys.readable THEN NoneStr
    ELSE ScanFrom(sys, 1)

\* segments a resolved path can be made of
seg_usbhost == <<"u", "s", "b", "@", "f", "e">>
seg_digit == <<"1">>
seg_dash == <<"a", "-", "1">>
PathSegs == {seg_usb2, seg_usbhost, seg_2_1, seg_host0, seg_digit, seg_dash, <<>>}

\* os.path.realpath(device_link).split(os.sep)
Paths == UNION {[1..k -> PathSegs] : k \in 0..MaxPathLen}

\* one call block_dev_usb_port() for a device whose link resolves to bp.path
BlockDevUsbPortCall ==
    /\ pc = "bp_call"
    /\ bp' = [bp EXCEPT !.result = block_dev_usb_port([link |-> bp.path])]
    /\ pc' = "bp_done"
    /\ UNCHANGED <<mainRest, mvaVars, PUBLIC_KEY_PEM, portVars, scanVars, cs, gs, run>>

\* one call get_device_name() on the snapshot sysfs
GetDeviceNameCall ==
    /\ pc = "gd_call"
    /\ gd_result' = get_device_name(sysfs)
    /\ pc' = "gd_done"
    /\ UNCHANGED <<mainRest, mvaVars, PUBLIC_KEY_PEM, portVars, sysfs, fnVars, run>>

----------------------------------------------------------------------------
\* clean_serial(), lines 116-128

NoClean == [in |-> NoneStr, out |-> <<>>, again |-> <<>>]
NoSerialCall == [name |-> sda, base |-> NoneStr, attr |-> "missing", content |-> <<>>,
                 udev |-> "raises", prop |-> NoneStr, fallback |-> FALSE,
                 result |-> NoneStr]
NoPathCall == [path |-> <<>>, result |-> NoneStr]

\* characters of serial numbers; str.strip and str.split treat the first two as whitespace
Whitespace == {" ", "\t"}
SerialChars == Whitespace \cup {"a", "b", "c", "1"}

\* str.upper, character by character
UpperChar(c) ==
    CASE c = "a" -> "A"
      [] c = "b" -> "B"
      [] c = "c" -> "C"
      [] OTHER -> c

upper(s) == [i \in 1..Len(s) |-> UpperChar(s[i])]

RECURSIVE lstrip(_)
lstrip(s) ==
    IF s # <<>> /\ Head(s) \in Whitespace THEN lstrip(Tail(s)) ELSE s

RECURSIVE rstrip(_)
rstrip(s) ==
    IF s # <<>> /\ s[Len(s)] \in Whitespace THEN rstrip(SubSeq(s, 1, Len(s) - 1)) ELSE s

\* str.strip()
strip(s) == rstrip(lstrip(s))

IsNotSpace(c) == c \notin Whitespace

\* ''.join(serial.split())
JoinSplit(s) == SelectSeq(s, IsNotSpace)

\* variant: only the ends are trimmed, inner whitespace stays
clean_serial_striponly(ser) ==
    IF ser = NoneStr \/ ser = <<>> THEN <<>>
    ELSE upper(strip(ser))

\* clean_serial, lines 116-128
clean_serial(ser) ==
    IF ser = NoneStr \/ ser = <<>> THEN <<>>
    ELSE upper(JoinSplit(strip(ser)))

SerialInputs == StrUpTo(SerialChars, MaxSerialLen) \cup {NoneStr}

\* one call clean_serial(cs.in), and clean_serial of what it returned
CleanSerialCall ==
    /\ pc = "cs_call"
    /\ cs' = [cs EXCEPT !.out = clean_serial(cs.in),
                        !.again = clean_serial(clean_serial(cs.in))]
    /\ pc' = "cs_done"
    /\ UNCHANGED <<mainRest, mvaVars, PUBLIC_KEY_PEM, portVars, scanVars, gs, bp, run>>

----------------------------------------------------------------------------
\* get_usb_serial_linux(), lines 131-173

\* line 143: device_name.rstrip('0123456789')
RECURSIVE rstrip_digits(_)
rstrip_digits(name) ==
    IF name # <<>> /\ name[Len(name)] \in Digits
    THEN rstrip_digits(SubSeq(name, 1, Len(name) - 1))
    ELSE name

\* /sys/block/<base>/device/serial: missing, failing to open or read, or readable
AttrStates == {"missing", "unreadable", "ok"}
\* udevadm: subprocess.run raises (timeout, not installed), exits non-zero, exits 0
UdevStates == {"raises", "nonzero", "ok"}
AttrContents == StrUpTo(SerialChars, MaxAttrLen)

\* what one call finds: the attribute and the ID_SERIAL_SHORT property (None: no such line)
SerialCalls ==
    {[name |-> n, base |-> NoneStr, attr |-> a, content |-> c, udev |-> u, prop |-> q,
      fallback |-> FALSE, result |-> NoneStr] :
        n \in {sda, sda1, sdb1},
        a \in AttrStates, c \in AttrContents,
        u \in UdevStates, q \in AttrContents \cup {NoneStr}}

\* lines 141-151 and 172-173: the sysfs attribute
ReadSerialAttr ==
    /\ pc = "gs_call"
    /\ LET base_device == rstrip_digits(gs.name)
           text == strip(gs.content)
       IN IF gs.attr = "missing"
          THEN /\ gs' = [gs EXCEPT !.base = base_device]
               /\ pc' = "gs_udev"
          ELSE IF gs.attr = "unreadable"
          \* open or read raises inside the outer try: line 173 returns None
          THEN /\ gs' = [gs EXCEPT !.base = base_device, !.result = NoneStr]
               /\ pc' = "gs_done"
          ELSE IF text # <<>>
          THEN /\ gs' = [gs EXCEPT !.base = base_device, !.result = clean_serial(text)]
               /\ pc' = "gs_done"
          ELSE /\ gs' = [gs EXCEPT !.base = base_device]
               /\ pc' = "gs_udev"
    /\ UNCHANGED <<mainRest, mvaVars, PUBLIC_KEY_PEM, portVars, scanVars, cs, bp, run>>

\* lines 154-170: the udevadm query
UdevQuery ==
    /\ pc = "gs_udev"
    /\ LET text == IF gs.prop = NoneStr THEN <<>> ELSE strip(gs.prop)
       IN gs' = [gs EXCEPT !.fallback = TRUE,
                           !.result = IF gs.udev = "ok" /\ gs.prop # NoneStr /\ text # <<>>
                                      THEN clean_serial(text)
                                      ELSE NoneStr]
    /\ pc' = "gs_done"
    /\ UNCHANGED <<mainRest, mvaVars, PUBLIC_KEY_PEM, portVars, scanVars, cs, bp, run>>

----------------------------------------------------------------------------
\* main(), lines 343-372

\* what get_device_name can hand to main: None or a device name
DeviceNames == {"sda1", "sdb"}

\* variant: validation on every tick at which a device is present
NewlyDetected_always(last) == TRUE

\* line 354: if not last_detected
NewlyDetected(last) == ~last

\* variant: the except clause leaves last_detected as it was
ExceptLastDetected_kept(last) == last

\* line 370: last_detected = False
ExceptLastDetected(last) == FALSE

\* variant: the except clause leaves validation_result as it was
ExceptValidationResult_kept(vr) == vr

\* line 369: validation_result = None
ExceptValidationResult(vr) == None

\* variant: validation_result survives a tick without a device
AbsentValidationResult_kept(vr) == vr

\* line 363: validation_result = None
AbsentValidationResult(vr) == None

\* variant: last_detected is set whenever a tick ends normally
LastDetectedAfter_true(currently_detected) == TRUE

\* variant: last_detected is never set
LastDetectedAfter_false(currently_detected) == FALSE

\* line 365: last_detected = currently_detected
LastDetectedAfter(currently_detected) == currently_detected

\* variant: the loop body is left after the first pass
LoopBack_exit == "exit"

\* line 347: while True
LoopBack == "scan"

\* variant: the return sits inside the "if mount_point:" block
HandlerReturn_inside(mp) == IF mp = None THEN None ELSE "3"

\* line 340: return "3"
HandlerReturn(mp) == "3"

\* variant: the two literals exchanged
ResultOf_swapped(valid) == IF valid = "True" THEN "3" ELSE "1"

\* line 330: return "1" if is_valid else "3"
ResultOf(valid) == IF valid = "True" THEN "1" ELSE "3"

\* variant: the exit status of mount is not looked at
MountFailed_ignored(returncode) == FALSE

\* line 315: if result.returncode != 0
MountFailed(returncode) == returncode # 0

\* exit statuses of the mount and umount commands
ExitCodes == {0, 32}

\* /etc/usb-validator/public_key.pem: missing, unreadable, or holding some bytes
NoKeyFile == [exists |-> FALSE, readable |-> FALSE, content |-> None]
KeyFileStates ==
    {NoKeyFile, [exists |-> TRUE, readable |-> FALSE, content |-> None]}
    \cup {[exists |-> TRUE, readable |-> TRUE, content |-> c] :
             c \in {"placeholder", "pemK", "pemX", "malformed"}}

ClearLocals ==
    /\ mount_point' = None
    /\ is_valid' = None
    /\ ret' = None
    /\ public_key' = None
    /\ key_file' = NoKeyFile
    /\ signature' = None
    /\ serial' = None
    /\ dirExists' = FALSE
    /\ mounted' = FALSE
    /\ mountRes' = None
    /\ umountLog' = <<>>
    /\ steps' = {}

\* nothing known: no validation in the current run
NoRun == [nosig |-> FALSE, name |-> None]

SetLast(h, field, v) == [h EXCEPT ![Len(h)][field] = v]

\* lines 349-350, get_device_name() returns
GetDeviceName ==
    /\ pc = "scan"
    /\ \E d \in DeviceNames \cup {None} :
          /\ device_name' = d
          /\ hist' = Append(hist, [pres |-> IF d = None THEN "absent" ELSE "present",
                                   validated |-> FALSE, res |-> None])
    /\ pc' = "check"
    /\ UNCHANGED <<last_detected, validation_result, out, tick>>
    /\ UNCHANGED <<mvaVars, PUBLIC_KEY_PEM, portVars, scanVars, fnVars, run>>

\* line 349, get_device_name() raises an exception that is not an OSError
GetDeviceNameRaises ==
    /\ pc = "scan"
    /\ hist' = Append(hist, [pres |-> "failed", validated |-> FALSE, res |-> None])
    /\ pc' = "except"
    /\ UNCHANGED <<last_detected, validation_result, device_name, out, tick>>
    /\ UNCHANGED <<mvaVars, PUBLIC_KEY_PEM, portVars, scanVars, fnVars, run>>

\* lines 367-370, the except clause of the loop body
ExceptHandler ==
    /\ pc = "except"
    /\ out' = Append(out, "0")
    /\ validation_result' = ExceptValidationResult(validation_result)
    /\ last_detected' = ExceptLastDetected(last_detected)
    /\ pc' = "sleep"
    /\ UNCHANGED <<device_name, tick, hist>>
    /\ UNCHANGED <<mvaVars, PUBLIC_KEY_PEM, portVars, scanVars, fnVars>>
    /\ run' = NoRun

\* lines 352-356, rising edge: mount_and_validate(device_name) is called
CallMountAndValidate ==
    /\ pc = "check"
    /\ device_name # None
    /\ NewlyDetected(last_detected)
    /\ hist' = SetLast(hist, "validated", TRUE)
    /\ pc' = "mkdtemp"
    /\ UNCHANGED <<last_detected, validation_result, device_name, out, tick>>
    /\ UNCHANGED <<mvaVars, PUBLIC_KEY_PEM, portVars, scanVars, fnVars>>
    /\ run' = [run EXCEPT !.name = device_name]

\* lines 352, 354, 359, 365: steady state, the cached result is printed
PrintCached ==
    /\ pc = "check"
    /\ device_name # None
    /\ ~NewlyDetected(last_detected)
    /\ out' = Append(out, validation_result)
    /\ last_detected' = LastDetectedAfter(TRUE)
    /\ pc' = "sleep"
    /\ UNCHANGED <<validation_result, device_name, tick, hist>>
    /\ UNCHANGED <<mvaVars, PUBLIC_KEY_PEM, portVars, scanVars, fnVars, run>>

\* lines 360-365: no device
PrintAbsent ==
    /\ pc = "check"
    /\ device_name = None
    /\ out' = Append(out, "0")
    /\ validation_result' = AbsentValidationResult(validation_result)
    /\ last_detected' = LastDetectedAfter(FALSE)
    /\ pc' = "sleep"
    /\ UNCHANGED <<device_name, tick, hist>>
    /\ UNCHANGED <<mvaVars, PUBLIC_KEY_PEM, portVars, scanVars, fnVars>>
    /\ run' = NoRun

\* lines 356, 359, 365: mount_and_validate returned; its value is stored and printed
PrintValidated ==
    /\ pc = "mva_done"
    /\ validation_result' = ret
    /\ out' = Append(out, ret)
    /\ last_detected' = LastDetectedAfter(TRUE)
    /\ hist' = SetLast(hist, "res", ret)
    /\ pc' = "sleep"
    /\ ClearLocals
    /\ UNCHANGED <<device_name, tick>>
    /\ UNCHANGED <<PUBLIC_KEY_PEM, portVars, scanVars, fnVars, run>>

\* line 372: time.sleep(1), then the next iteration
Sleep ==
    /\ pc = "sleep"
    /\ tick < MaxTicks
    /\ tick' = tick + 1
    /\ device_name' = None
    /\ pc' = LoopBack
    /\ UNCHANGED <<last_detected, validation_result, out, hist>>
    /\ UNCHANGED <<mvaVars, PUBLIC_KEY_PEM, portVars, scanVars, fnVars, run>>

----------------------------------------------------------------------------
\* load_public_key(), lines 176-208

PemKinds == {"placeholder", "pemK", "pemX", "malformed"}

\* line 190: b"REPLACE_THIS" in pem_data
ContainsReplaceThis(pem_data) == pem_data = "placeholder"

\* lines 201-208: serialization.load_pem_public_key, None when it raises
LoadPem(pem_data) ==
    CASE pem_data = "pemK" -> "K"
      [] pem_data = "pemX" -> "X"
      [] OTHER -> None

\* fileExists: os.path.exists(key_file); fileReadable: open/read does not raise;
\* fileContent: what the read returns
load_public_key(pem_data, fileExists, fileReadable, fileContent) ==
    IF ContainsReplaceThis(pem_data)
    THEN IF fileExists
         THEN IF fileReadable THEN LoadPem(fileContent) ELSE None
         ELSE None
    ELSE LoadPem(pem_data)

----------------------------------------------------------------------------
\* verify_signature(), lines 211-248

Serials == {"S1", "S2"}
Keys == {"K", "X"}

\* the PSS signature made with the private half of key k over serial + "manufacture"
Sign(k, s) ==
    CASE k = "K" /\ s = "S1" -> "sig_K_S1"
      [] k = "K" /\ s = "S2" -> "sig_K_S2"
      [] k = "X" /\ s = "S1" -> "sig_X_S1"
      [] k = "X" /\ s = "S2" -> "sig_X_S2"
      [] OTHER -> "unsigned"

\* what a device.sig file can hold
Signatures == {"sig_K_S1", "sig_K_S2", "sig_X_S1", "garbage"}

\* public_key.verify raises InvalidSignature unless the signature was made
\* by the matching private key over the same serial; every exception gives False
verify_signature(ser, sig, key) ==
    /\ key \in Keys
    /\ ser \in Serials
    /\ sig = Sign(key, ser)

----------------------------------------------------------------------------
\* validate_mounted_usb(), lines 251-289

\* line 265: if not public_key
KeyMissing(key) == key = None

\* variant: the test for the signature file is dropped
SigFileMissing_ignored(exists) == FALSE

\* line 270: if not os.path.exists(sig_file)
SigFileMissing(exists) == ~exists

\* line 282: if not serial
SerialMissing(ser) == ser = None

\* variant: the umount is only run for a device that validated
AfterValidate_onlyvalid(valid) == IF valid = TRUE THEN "umount" ELSE "rmdir"

\* where control goes once validate_mounted_usb has returned (lines 319-322)
AfterValidate(valid) == "umount"

ValidateReturns(b) ==
    /\ is_valid' = IF b THEN "True" ELSE "False"
    /\ pc' = AfterValidate(b)

\* lines 264-266
LoadKey ==
    /\ pc = "v_key"
    /\ \E kf \in KeyFileStates :
          /\ key_file' = kf
          /\ public_key' = load_public_key(PUBLIC_KEY_PEM, kf.exists,
                                           kf.readable, kf.content)
          /\ IF KeyMissing(public_key')
             THEN /\ ValidateReturns(FALSE)
                  /\ steps' = steps
             ELSE /\ pc' = "v_sig"
                  /\ steps' = steps \cup {"key_loaded"}
                  /\ is_valid' = is_valid
    /\ UNCHANGED <<mount_point, ret, signature, serial, dirExists, mounted,
                   mountRes, umountLog>>
    /\ UNCHANGED mainRest
    /\ UNCHANGED <<PUBLIC_KEY_PEM, portVars, scanVars, fnVars, run>>

\* lines 269-271
CheckSigFile ==
    /\ pc = "v_sig"
    /\ \E exists \in BOOLEAN :
          \* os.path.exists is false for every path under a directory nothing is mounted on
          /\ exists => mounted
          /\ run' = [run EXCEPT !.nosig = (mountRes = "exit0" /\ ~exists)]
          /\ IF SigFileMissing(exists)
             THEN /\ ValidateReturns(FALSE)
                  /\ steps' = steps \cup {"sig_lookup"}
             ELSE /\ pc' = "v_read"
                  /\ steps' = steps \cup {"sig_lookup", "sig_exists"}
                  /\ is_valid' = is_valid
    /\ UNCHANGED <<mount_point, ret, public_key, key_file, signature, serial, dirExists,
                   mounted, mountRes, umountLog>>
    /\ UNCHANGED mainRest
    /\ UNCHANGED <<PUBLIC_KEY_PEM, portVars, scanVars, fnVars>>

\* lines 274-278
ReadSigFile ==
    /\ pc = "v_read"
    /\ \/ \E content \in Signatures :
             /\ signature' = content
             /\ steps' = steps \cup {"sig_read"}
             /\ pc' = "v_serial"
             /\ is_valid' = is_valid
       \/ /\ ValidateReturns(FALSE)       \* open or read raised
          /\ UNCHANGED <<signature, steps>>
    /\ UNCHANGED <<mount_point, ret, public_key, key_file, serial, dirExists,
                   mounted, mountRes, umountLog>>
    /\ UNCHANGED mainRest
    /\ UNCHANGED <<PUBLIC_KEY_PEM, portVars, scanVars, fnVars, run>>

\* lines 281-283; get_usb_serial_linux returns None or a non-empty cleaned serial
GetSerial ==
    /\ pc = "v_serial"
    /\ \E s \in Serials \cup {None} :
          /\ serial' = s
          /\ IF SerialMissing(s)
             THEN /\ ValidateReturns(FALSE)
                  /\ steps' = steps \cup {"serial_called"}
             ELSE /\ pc' = "v_verify"
                  /\ steps' = steps \cup {"serial_called", "serial_resolved"}
                  /\ is_valid' = is_valid
    /\ UNCHANGED <<mount_point, ret, public_key, key_file, signature, dirExists,
                   mounted, mountRes, umountLog>>
    /\ UNCHANGED mainRest
    /\ UNCHANGED <<PUBLIC_KEY_PEM, portVars, scanVars, fnVars, run>>

\* line 286
VerifySignature ==
    /\ pc = "v_verify"
    /\ LET ok == verify_signature(serial, signature, public_key) IN
          /\ ValidateReturns(ok)
          /\ steps' = steps \cup {"verify_called"}
                            \cup (IF ok THEN {"verify_true"} ELSE {})
    /\ UNCHANGED <<mount_point, ret, public_key, key_file, signature, serial, dirExists,
                   mounted, mountRes, umountLog>>
    /\ UNCHANGED mainRest
    /\ UNCHANGED <<PUBLIC_KEY_PEM, portVars, scanVars, fnVars, run>>

\* lines 288-289: any other exception inside validate_mounted_usb gives False
ValidateRaises ==
    /\ pc \in {"v_key", "v_sig", "v_read", "v_serial", "v_verify"}
    /\ ValidateReturns(FALSE)
    /\ steps' = steps \cup {"unexpected"}
    /\ UNCHANGED <<mount_point, ret, public_key, key_file, signature, serial, dirExists,
                   mounted, mountRes, umountLog>>
    /\ UNCHANGED mainRest
    /\ UNCHANGED <<PUBLIC_KEY_PEM, portVars, scanVars, fnVars, run>>

----------------------------------------------------------------------------
\* mount_and_validate(), lines 292-340

\* os.rmdir(mount_point): fails (directory busy) while the device is mounted on it
DirAfterRmdir(isMounted, exists) == IF isMounted THEN exists ELSE FALSE

\* lines 302-305: tempfile.mkdtemp
Mkdtemp ==
    /\ pc = "mkdtemp"
    /\ \/ /\ mount_point' = "mp"
          /\ dirExists' = TRUE
          /\ pc' = "mount"
       \/ /\ pc' = "handler"              \* mkdtemp raised
          /\ UNCHANGED <<mount_point, dirExists>>
    /\ UNCHANGED <<is_valid, ret, public_key, key_file, signature, serial, mounted,
                   mountRes, umountLog, steps>>
    /\ UNCHANGED mainRest
    /\ UNCHANGED <<PUBLIC_KEY_PEM, portVars, scanVars, fnVars, run>>

\* lines 308-316: the mount command exits with a status
MountExits ==
    /\ pc = "mount"
    /\ \E returncode \in ExitCodes :
          /\ mounted' = (returncode = 0)
          /\ mountRes' = IF returncode = 0 THEN "exit0" ELSE "nonzero"
          /\ IF MountFailed(returncode)
             THEN /\ ret' = "3"
                  /\ pc' = "mva_done"
             ELSE /\ ret' = ret
                  /\ pc' = "v_key"
    /\ UNCHANGED <<mount_point, is_valid, public_key, key_file, signature, serial,
                   dirExists, umountLog, steps>>
    /\ UNCHANGED mainRest
    /\ UNCHANGED <<PUBLIC_KEY_PEM, portVars, scanVars, fnVars, run>>

\* lines 309-313: subprocess.run raises TimeoutExpired after 10 s; the killed
\* mount may or may not have attached the filesystem
MountTimesOut ==
    /\ pc = "mount"
    /\ mounted' \in BOOLEAN
    /\ mountRes' = "timeout"
    /\ pc' = "handler"
    /\ UNCHANGED <<mount_point, is_valid, ret, public_key, key_file, signature, serial,
                   dirExists, umountLog, steps>>
    /\ UNCHANGED mainRest
    /\ UNCHANGED <<PUBLIC_KEY_PEM, portVars, scanVars, fnVars, run>>

\* what a umount command can do: exit 0 (only if something is mounted),
\* exit non-zero, or run into the timeout
UmountOutcomes(isMounted) ==
    (IF isMounted THEN {"exit0"} ELSE {}) \cup {"nonzero", "timeout"}

\* line 322: subprocess.run(['umount', mount_point], timeout=10)
Umount ==
    /\ pc = "umount"
    /\ \E o \in UmountOutcomes(mounted) :
          /\ umountLog' = Append(umountLog, o)
          /\ mounted' = IF o = "exit0" THEN FALSE ELSE mounted
          /\ pc' = IF o = "timeout" THEN "handler" ELSE "rmdir"
    /\ UNCHANGED <<mount_point, is_valid, ret, public_key, key_file, signature, serial,
                   dirExists, mountRes, steps>>
    /\ UNCHANGED mainRest
    /\ UNCHANGED <<PUBLIC_KEY_PEM, portVars, scanVars, fnVars, run>>

\* lines 325-330: rmdir (errors swallowed) and the normal return
RmdirAndReturn ==
    /\ pc = "rmdir"
    /\ dirExists' = DirAfterRmdir(mounted, dirExists)
    /\ ret' = ResultOf(is_valid)
    /\ pc' = "mva_done"
    /\ UNCHANGED <<mount_point, is_valid, public_key, key_file, signature, serial,
                   mounted, mountRes, umountLog, steps>>
    /\ UNCHANGED mainRest
    /\ UNCHANGED <<PUBLIC_KEY_PEM, portVars, scanVars, fnVars, run>>

\* lines 332-340: the except clause of mount_and_validate
Handler ==
    /\ pc = "handler"
    /\ IF mount_point = None
       THEN UNCHANGED <<umountLog, mounted, dirExists>>
       ELSE \E o \in UmountOutcomes(mounted) :
               /\ umountLog' = Append(umountLog, o)
               /\ mounted' = IF o = "exit0" THEN FALSE ELSE mounted
               \* a timeout of the umount skips the rmdir of line 337
               /\ dirExists' = IF o = "timeout" THEN dirExists
                               ELSE DirAfterRmdir(mounted', dirExists)
    /\ ret' = HandlerReturn(mount_point)
    /\ pc' = "mva_done"
    /\ UNCHANGED <<mount_point, is_valid, public_key, key_file, signature, serial,
                   mountRes, steps>>
    /\ UNCHANGED mainRest
    /\ UNCHANGED <<PUBLIC_KEY_PEM, portVars, scanVars, fnVars, run>>

----------------------------------------------------------------------------
\* The polling loop

DefaultPort == <<"2", "-", "1">>

FnIdle ==
    /\ cs = NoClean
    /\ gs = NoSerialCall
    /\ bp = NoPathCall

LoopIdle ==
    /\ run = NoRun
    /\ last_detected = FALSE
    /\ validation_result = None
    /\ device_name = None
    /\ out = <<>>
    /\ tick = 0
    /\ hist = <<>>
    /\ mount_point = None
    /\ is_valid = None
    /\ ret = None
    /\ public_key = None
    /\ key_file = NoKeyFile
    /\ signature = None
    /\ serial = None
    /\ dirExists = FALSE
    /\ mounted = FALSE
    /\ mountRes = None
    /\ umountLog = <<>>
    /\ steps = {}

PortIdle ==
    /\ pm_candidate = NoneStr
    /\ pm_result = FALSE

ScanIdle ==
    /\ sysfs = NoSysfs
    /\ gd_result = NoneStr

Init ==
    /\ pc = "scan"
    /\ LoopIdle
    /\ PUBLIC_KEY_PEM \in {"placeholder", "pemK"}
    /\ USB_PORT = DefaultPort
    /\ PortIdle
    /\ ScanIdle
    /\ FnIdle

Next ==
    \/ GetDeviceName
    \/ GetDeviceNameRaises
    \/ ExceptHandler
    \/ CallMountAndValidate
    \/ PrintCached
    \/ PrintAbsent
    \/ PrintValidated
    \/ Sleep
    \/ Mkdtemp
    \/ MountExits
    \/ MountTimesOut
    \/ LoadKey
    \/ CheckSigFile
    \/ ReadSigFile
    \/ GetSerial
    \/ VerifySignature
    \/ ValidateRaises
    \/ Umount
    \/ RmdirAndReturn
    \/ Handler

Spec == Init /\ [][Next]_vars

\* line 372 again, with the history of the finished tick dropped, so that
\* the loop can be followed for ever in a finite state space
SleepForget ==
    /\ pc = "sleep"
    /\ tick' = 0
    /\ out' = <<>>
    /\ hist' = <<>>
    /\ device_name' = None
    /\ pc' = LoopBack
    /\ UNCHANGED <<last_detected, validation_result>>
    /\ UNCHANGED <<mvaVars, PUBLIC_KEY_PEM, portVars, scanVars, fnVars, run>>

NextLive ==
    \/ GetDeviceName
    \/ GetDeviceNameRaises
    \/ ExceptHandler
    \/ CallMountAndValidate
    \/ PrintCached
    \/ PrintAbsent
    \/ PrintValidated
    \/ SleepForget
    \/ Mkdtemp
    \/ MountExits
    \/ MountTimesOut
    \/ LoadKey
    \/ CheckSigFile
    \/ ReadSigFile
    \/ GetSerial
    \/ VerifySignature
    \/ ValidateRaises
    \/ Umount
    \/ RmdirAndReturn
    \/ Handler

\* one thread runs the loop; every call in it returns or raises (the
\* subprocess calls carry timeouts), so a step that can be taken is taken
SpecLive == Init /\ [][NextLive]_vars /\ WF_vars(NextLive)

----------------------------------------------------------------------------
\* Properties of the polling loop and of the mount lifecycle

Results == {"1", "3"}

\* number of ticks whose line has been printed
Completed == IF pc \in {"scan", "sleep"} THEN Len(hist) ELSE Len(hist) - 1

NoFailureUpTo(i) == \A k \in 1..i : hist[k].pres # "failed"

CleanupOnEveryPath ==
    pc = "mva_done" => ~dirExists /\ ~mounted

UmountFailed == \E i \in 1..Len(umountLog) : umountLog[i] \in {"nonzero", "timeout"}

\* C3: once the mount succeeded and validation computed its outcome, a failing
\* umount (non-zero exit or timeout) leaves the returned result as computed:
\* "1" for valid, "3" for invalid.
UnmountFailureKeepsResult ==
    (pc = "mva_done" /\ mountRes = "exit0" /\ is_valid # None /\ UmountFailed) =>
        /\ is_valid = "True" => ret = "1"
        /\ is_valid = "False" => ret = "3"

\* C4: whenever the mount succeeded, a umount has been attempted by the time
\* mount_and_validate returns, whatever happened during validation.
UnmountAttempted ==
    (pc = "mva_done" /\ mountRes = "exit0") => Len(umountLog) >= 1

\* validation broke off unexpectedly after a successful mount and the umount was run
UnmountAttemptedWitness ==
    /\ pc = "mva_done"
    /\ mountRes = "exit0"
    /\ "unexpected" \in steps
    /\ "sig_read" \in steps
    /\ Len(umountLog) >= 1

\* C5: every tick prints exactly one line and every printed line is one of
\* "0", "1", "3".
OneLinePerTick ==
    /\ \A i \in 1..Len(out) : out[i] \in {"0", "1", "3"}
    /\ Len(out) = IF pc = "sleep" THEN tick + 1 ELSE tick

\* a device was present, a tick failed, and the device was present again
OneLinePerTickWitness ==
    /\ pc = "sleep"
    /\ Len(hist) >= 3
    /\ hist[Len(hist) - 2].pres = "present"
    /\ hist[Len(hist) - 1].pres = "failed"
    /\ hist[Len(hist)].pres = "present"
    /\ out[Len(out) - 2] = "1"
    /\ out[Len(out)] = "3"

\* C6: a tick that fails prints "0" and leaves last_detected = False and
\* validation_result = None, the loop goes on to its sleep, and a candidate
\* present at the following tick is validated again.
FailedTickResets ==
    \A i \in 1..Len(hist) :
        hist[i].pres = "failed" =>
            /\ i = Len(hist) => pc \in {"except", "sleep", "scan"}
            /\ i <= Completed => out[i] = "0"
            /\ (i = Len(hist) /\ pc \in {"sleep", "scan"}) =>
                  /\ last_detected = FALSE
                  /\ validation_result = None
            /\ (i + 1 <= Completed /\ hist[i+1].pres = "present") =>
                  hist[i+1].validated

\* a device validated, the next tick failed, and the tick after validated it again
FailedTickResetsWitness ==
    /\ pc = "sleep"
    /\ \E i \in 2..(Len(hist) - 1) :
          /\ hist[i-1].pres = "present"
          /\ hist[i-1].validated
          /\ hist[i].pres = "failed"
          /\ out[i] = "0"
          /\ hist[i+1].pres = "present"
          /\ hist[i+1].validated

\* a usable public key: the embedded PEM when it is not the placeholder,
\* otherwise the key file, and it has to parse
UsableKey ==
    IF PUBLIC_KEY_PEM = "placeholder"
    THEN /\ key_file.exists
         /\ key_file.readable
         /\ key_file.content \in {"pemK", "pemX"}
    ELSE PUBLIC_KEY_PEM \in {"pemK", "pemX"}

\* C7: mount_and_validate returns "1" only if the mount exited 0, a usable
\* public key was loaded, device.sig existed and was read, a non-empty serial
\* was resolved and verify_signature returned true; without a usable key the
\* result is "3".
ValidOnlyWhenVerified ==
    /\ (pc = "mva_done" /\ ret = "1") =>
          /\ mountRes = "exit0"
          /\ UsableKey
          /\ public_key \in Keys
          /\ {"key_loaded", "sig_lookup", "sig_exists", "sig_read",
              "serial_resolved", "verify_called", "verify_true"} \subseteq steps
          /\ serial \in Serials
          /\ signature = Sign(public_key, serial)
    /\ (pc = "mva_done" /\ ~UsableKey) => ret = "3"

\* the placeholder is embedded, the key file holds the key, and the device validates
ValidOnlyWhenVerifiedWitness ==
    /\ pc = "mva_done"
    /\ ret = "1"
    /\ PUBLIC_KEY_PEM = "placeholder"
    /\ key_file.content = "pemK"
    /\ "verify_true" \in steps

VerificationSteps ==
    {"sig_lookup", "sig_exists", "sig_read", "serial_called", "serial_resolved",
     "verify_called", "verify_true"}

\* C10: when the mount command exits non-zero or times out, mount_and_validate
\* returns "3" without looking up or reading the signature file, resolving the
\* serial or calling verify_signature.
FailedMountSkipsVerification ==
    (pc = "mva_done" /\ mountRes \in {"nonzero", "timeout"}) =>
        /\ ret = "3"
        /\ steps \cap VerificationSteps = {}
        /\ signature = None
        /\ serial = None

\* the mount command exited non-zero and mount_and_validate returned
FailedMountSkipsVerificationWitness ==
    /\ pc = "mva_done"
    /\ mountRes = "nonzero"
    /\ ret = "3"

\* C11: once a validation has mounted the device and found no device.sig,
\* every line printed while the device stays present is "3", and control never
\* reaches the reading of the signature, the serial lookup or verify_signature.
MissingSignatureGivesInvalid ==
    run.nosig =>
        /\ pc \notin {"v_read", "v_serial", "v_verify"}
        /\ steps \cap {"sig_exists", "sig_read", "verify_called", "verify_true"} = {}
        /\ pc = "mva_done" => ret = "3"
        /\ (pc \in {"sleep", "scan"} /\ Len(out) >= 1) =>
              /\ out[Len(out)] = "3"
              /\ validation_result = "3"

\* no device.sig was found, and two ticks later the device is still there and "3" is printed
MissingSignatureGivesInvalidWitness ==
    /\ run.nosig
    /\ pc = "sleep"
    /\ Len(hist) >= 3
    /\ hist[Len(hist) - 2].validated
    /\ hist[Len(hist) - 1].pres = "present"
    /\ hist[Len(hist)].pres = "present"
    /\ out[Len(out) - 2] = "3"
    /\ out[Len(out) - 1] = "3"
    /\ out[Len(out)] = "3"

\* C12: mount_and_validate returns "1" or "3" on every path, and no failure
\* inside it reaches the except clause of the loop.
AlwaysValidOrInvalid ==
    /\ pc = "mva_done" => ret \in Results
    /\ pc = "except" => ~hist[Len(hist)].validated
    /\ \A i \in 1..Len(hist) : hist[i].res # None => hist[i].res \in Results

\* mkdtemp raised, and mount_and_validate still returned "3"
AlwaysValidOrInvalidWitness ==
    /\ pc = "mva_done"
    /\ mount_point = None
    /\ ret = "3"

\* C13: a tick at which no candidate is found prints "0" and ends with
\* last_detected = False and validation_result = None, whatever came before.
AbsentTickResets ==
    /\ \A i \in 1..Completed : hist[i].pres = "absent" => out[i] = "0"
    /\ (pc = "sleep" /\ hist[Len(hist)].pres = "absent") =>
          /\ last_detected = FALSE
          /\ validation_result = None

\* a device had validated as "1", then no candidate was found
AbsentTickResetsWitness ==
    /\ pc = "sleep"
    /\ Len(hist) >= 2
    /\ hist[Len(hist) - 1].pres = "present"
    /\ out[Len(out) - 1] = "1"
    /\ hist[Len(hist)].pres = "absent"
    /\ out[Len(out)] = "0"

\* C14: every tick that starts prints its line and reaches the sleep, and
\* every sleep is followed by the next tick, for ever.
LoopNeverStops ==
    /\ (pc = "scan") ~> (pc = "sleep" /\ Len(out) = 1)
    /\ (pc = "sleep") ~> (pc = "scan")
    /\ []<>(pc = "sleep")

\* a device validated at one tick and the loop is at the top of the next tick
LoopNeverStopsWitness ==
    /\ pc = "scan"
    /\ last_detected
    /\ validation_result = "1"

\* C19: between ticks last_detected is true exactly when validation_result is
\* set, and a set validation_result is "1" or "3".
CacheMatchesPresence ==
    pc \in {"scan", "sleep"} =>
        /\ last_detected <=> validation_result # None
        /\ validation_result # None => validation_result \in Results

\* a failed tick after a validated device: both variables are cleared together
CacheMatchesPresenceWitness ==
    /\ pc = "sleep"
    /\ Len(hist) >= 3
    /\ hist[Len(hist) - 2].pres = "present"
    /\ hist[Len(hist) - 1].pres = "present"
    /\ hist[Len(hist)].pres = "failed"
    /\ last_detected = FALSE
    /\ validation_result = None

\* C20: when a candidate is present at two consecutive ticks, the second one
\* runs no validation and prints what the first one printed, whatever device
\* name the scanner returned; the result stays the one obtained for run.name.
CachedAcrossNames ==
    (pc = "sleep" /\ Len(hist) >= 2 /\ hist[Len(hist) - 1].pres = "present"
                  /\ hist[Len(hist)].pres = "present") =>
        /\ ~hist[Len(hist)].validated
        /\ out[Len(out)] = out[Len(out) - 1]
        /\ run.name \in DeviceNames
        /\ validation_result = out[Len(out)]

\* "1" was obtained for sda1 and is printed at the next tick for sdb
CachedAcrossNamesWitness ==
    /\ pc = "sleep"
    /\ Len(hist) >= 2
    /\ hist[Len(hist) - 1].validated
    /\ hist[Len(hist)].pres = "present"
    /\ ~hist[Len(hist)].validated
    /\ run.name = "sda1"
    /\ device_name = "sdb"
    /\ out[Len(out) - 1] = "1"
    /\ out[Len(out)] = "1"

----------------------------------------------------------------------------
\* port_matches on its own: every target and candidate up to the bounds

InitPort ==
    /\ pc = "pm_call"
    /\ LoopIdle
    /\ PUBLIC_KEY_PEM = "placeholder"
    /\ USB_PORT \in PortTargets
    /\ pm_candidate \in PortCandidates
    /\ pm_result = FALSE
    /\ ScanIdle
    /\ FnIdle

NextPort == PortMatchesCall

SpecPort == InitPort /\ [][NextPort]_vars

IsPrefixOf(p, s) == Len(p) <= Len(s) /\ SubSeq(s, 1, Len(p)) = p

\* C8: port_matches(candidate) is true exactly when candidate equals the
\* target, or starts with the target followed by "." or by ":"; None never
\* matches, and "1-10" does not match the target "1-1".
PortMatchesIff ==
    pc = "pm_done" =>
        /\ pm_result <=>
              /\ pm_candidate # NoneStr
              /\ \/ pm_candidate = USB_PORT
                 \/ IsPrefixOf(USB_PORT \o <<".">>, pm_candidate)
                 \/ IsPrefixOf(USB_PORT \o <<":">>, pm_candidate)
        /\ pm_candidate = NoneStr => ~pm_result
        /\ (USB_PORT = <<"1", "-", "1">> /\ pm_candidate = <<"1", "-", "1", "0">>)
              => ~pm_result

\* target "1-1", candidate "1-1.0" matched
PortMatchesIffWitness ==
    /\ pc = "pm_done"
    /\ USB_PORT = <<"1", "-", "1">>
    /\ pm_candidate = <<"1", "-", "1", ".", "0">>
    /\ pm_result = TRUE

----------------------------------------------------------------------------
\* get_device_name on its own: every /sys/block snapshot up to the bounds

InitScan ==
    /\ pc = "gd_call"
    /\ LoopIdle
    /\ PUBLIC_KEY_PEM = "placeholder"
    /\ USB_PORT = DefaultPort
    /\ PortIdle
    /\ sysfs \in Snapshots
    /\ gd_result = NoneStr
    /\ FnIdle

NextScan == GetDeviceNameCall

SpecScan == InitScan /\ [][NextScan]_vars

\* the entries get_device_name can choose: "sd" name, removable, on the target port
Matching(e) ==
    /\ SubSeq(e.name, 1, 2) = <<"s", "d">>
    /\ e.removable = "1"
    /\ e.link[2] = seg_usb2
    /\ e.link[3] = seg_2_1

HasChosen == sysfs.readable /\ \E i \in 1..Len(sysfs.entries) : Matching(sysfs.entries[i])

\* the first matching entry in enumeration order
Chosen ==
    sysfs.entries[CHOOSE i \in 1..Len(sysfs.entries) :
                     /\ Matching(sysfs.entries[i])
                     /\ \A j \in 1..(i-1) : ~Matching(sysfs.entries[j])]

\* positions in the sub-directory listing whose name strictly extends the device name
PartitionIdx(name) ==
    {k \in 1..Len(sysfs.subdir.names) :
        /\ IsPrefixOf(name, sysfs.subdir.names[k])
        /\ Len(sysfs.subdir.names[k]) > Len(name)}

\* C9: the chosen device's single partition is returned when it has exactly
\* one sub-entry strictly extending its name; with none, or with two or more,
\* the base device name is returned.
ExactlyOnePartition ==
    (pc = "gd_done" /\ HasChosen) =>
        LET name == Chosen.name
            idx == PartitionIdx(name)
        IN IF Cardinality(idx) = 1
           THEN \E k \in idx : gd_result = sysfs.subdir.names[k]
           ELSE gd_result = name

\* C9 as amended: the first sub-entry in listing order that strictly extends
\* the device name is returned when there is one, however many there are;
\* the base device name is returned when there is none.
FirstPartitionReturned ==
    (pc = "gd_done" /\ HasChosen) =>
        LET name == Chosen.name
            idx == PartitionIdx(name)
        IN IF idx # {}
           THEN \E k \in idx : /\ \A j \in idx : k <= j
                               /\ gd_result = sysfs.subdir.names[k]
           ELSE gd_result = name

\* sda is chosen, its directory lists sda2 before sda1, and sda2 is returned
FirstPartitionReturnedWitness ==
    /\ pc = "gd_done"
    /\ HasChosen
    /\ Chosen.name = sda
    /\ sysfs.subdir.names = <<sda2, sda1>>
    /\ gd_result = sda2

\* C18: get_device_name returns None exactly when /sys/block cannot be
\* listed or holds no "sd" entry that is removable and on the target port;
\* otherwise the name returned is the first such entry's name or one of its
\* partitions, never a later entry's.
FirstMatchWins ==
    pc = "gd_done" =>
        /\ gd_result = NoneStr <=> ~HasChosen
        /\ HasChosen =>
              /\ IsPrefixOf(Chosen.name, gd_result)
              /\ \/ gd_result = Chosen.name
                 \/ \E k \in PartitionIdx(Chosen.name) : gd_result = sysfs.subdir.names[k]

\* sdb and sda both match, sdb is listed first, and sdb1 is returned
FirstMatchWinsWitness ==
    /\ pc = "gd_done"
    /\ Len(sysfs.entries) = 2
    /\ Matching(sysfs.entries[1])
    /\ Matching(sysfs.entries[2])
    /\ sysfs.entries[1].name = sdb
    /\ sysfs.entries[2].name = sda
    /\ gd_result = sdb1

----------------------------------------------------------------------------
\* clean_serial on its own: every input up to the bounds

InitClean ==
    /\ pc = "cs_call"
    /\ LoopIdle
    /\ PUBLIC_KEY_PEM = "placeholder"
    /\ USB_PORT = DefaultPort
    /\ PortIdle
    /\ ScanIdle
    /\ cs \in {[in |-> x, out |-> <<>>, again |-> <<>>] : x \in SerialInputs}
    /\ gs = NoSerialCall
    /\ bp = NoPathCall

NextClean == CleanSerialCall

SpecClean == InitClean /\ [][NextClean]_vars

Lowercase == {"a", "b", "c"}

\* C15: clean_serial(clean_serial(s)) = clean_serial(s), the result holds no
\* whitespace and no lowercase letter, clean_serial(" ab c ") = "ABC" and
\* clean_serial("") = "".
CleanSerialIdempotent ==
    pc = "cs_done" =>
        /\ cs.again = cs.out
        /\ \A i \in 1..Len(cs.out) : cs.out[i] \notin (Whitespace \cup Lowercase)
        /\ cs.in = <<" ", "a", "b", " ", "c", " ">> => cs.out = <<"A", "B", "C">>
        /\ cs.in = <<>> => cs.out = <<>>

\* clean_serial(" ab c ") returned "ABC"
CleanSerialIdempotentWitness ==
    /\ pc = "cs_done"
    /\ cs.in = <<" ", "a", "b", " ", "c", " ">>
    /\ cs.out = <<"A", "B", "C">>
    /\ cs.again = <<"A", "B", "C">>

----------------------------------------------------------------------------
\* get_usb_serial_linux on its own

InitSerial ==
    /\ pc = "gs_call"
    /\ LoopIdle
    /\ PUBLIC_KEY_PEM = "placeholder"
    /\ USB_PORT = DefaultPort
    /\ PortIdle
    /\ ScanIdle
    /\ cs = NoClean
    /\ gs \in SerialCalls
    /\ bp = NoPathCall

NextSerial == ReadSerialAttr \/ UdevQuery

SpecSerial == InitSerial /\ [][NextSerial]_vars

HasText(s) == s # NoneStr /\ \E i \in 1..Len(s) : s[i] \notin Whitespace

\* C16: the cleaned sysfs serial is returned when the attribute is there and
\* not empty; in every other case (missing, empty, unreadable) the udev query
\* is tried and the call fails only if that yields nothing; "" is never returned.
SerialFallback ==
    pc = "gs_done" =>
        /\ gs.result # <<>>
        /\ IF gs.attr = "ok" /\ HasText(gs.content)
           THEN /\ gs.result = clean_serial(gs.content)
                /\ ~gs.fallback
           ELSE /\ gs.fallback
                /\ gs.result = NoneStr <=> ~(gs.udev = "ok" /\ HasText(gs.prop))
                /\ gs.result # NoneStr => gs.result = clean_serial(gs.prop)

----------------------------------------------------------------------------
\* block_dev_usb_port on its own: every path up to the bounds

InitPath ==
    /\ pc = "bp_call"
    /\ LoopIdle
    /\ PUBLIC_KEY_PEM = "placeholder"
    /\ USB_PORT = DefaultPort
    /\ PortIdle
    /\ ScanIdle
    /\ cs = NoClean
    /\ gs = NoSerialCall
    /\ bp \in {[path |-> x, result |-> NoneStr] : x \in Paths}

NextPath == BlockDevUsbPortCall

SpecPath == InitPath /\ [][NextPath]_vars

UsbIdx == {i \in 1..Len(bp.path) : IsPrefixOf(<<"u", "s", "b">>, bp.path[i])}

\* <digit>...-...
HasPortShape(seg) ==
    /\ Len(seg) >= 1
    /\ seg[1] \in Digits
    /\ \E k \in 1..Len(seg) : seg[k] = "-"

\* C17: the segment after the first "usb" segment is returned when it is
\* port-shaped; None is returned when there is no "usb" segment or when the
\* segment after the first one is not port-shaped.
FirstUsbSegmentDecides ==
    pc = "bp_done" =>
        IF UsbIdx = {} THEN bp.result = NoneStr
        ELSE LET f == CHOOSE i \in UsbIdx : \A j \in UsbIdx : i <= j
             IN IF f + 1 <= Len(bp.path) /\ HasPortShape(bp.path[f + 1])
                THEN bp.result = bp.path[f + 1]
                ELSE bp.result = NoneStr

\* "usb" segments that are followed by a port-shaped segment
UsbPortIdx == {i \in UsbIdx : i + 1 <= Len(bp.path) /\ HasPortShape(bp.path[i + 1])}

\* C17 as amended: the segment returned follows the first "usb" segment whose
\* successor is port-shaped; None is returned when no "usb" segment has a
\* port-shaped successor.
FirstUsbPortPairDecides ==
    pc = "bp_done" =>
        IF UsbPortIdx = {} THEN bp.result = NoneStr
        ELSE LET f == CHOOSE i \in UsbPortIdx : \A j \in UsbPortIdx : i <= j
             IN bp.result = bp.path[f + 1]

\* usb@fe / usb2 / 2-1: the first "usb" segment is followed by "usb2", and "2-1" is returned
FirstUsbPortPairDecidesWitness ==
    /\ pc = "bp_done"
    /\ bp.path = <<seg_usbhost, seg_usb2, seg_2_1>>
    /\ bp.result = seg_2_1

====
